---- MODULE Spec2Model ----
(***************************************************************************)
(* Research synthesis engine of src/src/synthesized_agent.py and the       *)
(* workflow endpoints of src/src/main.py.                                  *)
(*                                                                         *)
(* Spec    : one KnowledgeGraph object driven by add_insight,              *)
(*           identify_consensus and identify_divergences in any order.     *)
(* SpecWF  : the two orchestrators of the process (the module-level one    *)
(*           behind process_sigma_builder_request, app.state.orchestrator  *)
(*           behind /workflow/start) serving requests whose coroutines     *)
(*           interleave at their await points.                             *)
(***************************************************************************)
EXTENDS Integers, Sequences, FiniteSets, TLC

VARIABLES
    kg,           \* a KnowledgeGraph object: insights, graph, cached patterns
    fs,           \* the research files that exist (what Path.exists answers)
    outfiles,     \* the report and plan files: path -> content last written
    orch,         \* the orchestrators: accumulated context, digestion agent's graph
    tasks,        \* the coroutines serving requests and background workflows
    status_objs,  \* the WorkflowStatus objects created by /workflow/start
    active_tasks, \* app.state.active_tasks: workflow_id -> WorkflowStatus object
    clock,        \* datetime.now() in whole seconds
    added,        \* the argument of the latest add_insight call on kg, if any
    planned,      \* core/base_agent.py: the latest PlannerAgent.process call
    executor,     \* core/base_agent.py: an ExecutorAgent.process coroutine
    sonnet_kg,    \* baseline/sonnet multi_model_agent.py: a KnowledgeGraph object
    unified       \* unified_sigma_agent.py: the latest _analyze_patterns call

wfvars == <<fs, outfiles, orch, tasks, status_objs, active_tasks, clock>>
libvars == <<planned, executor, sonnet_kg, unified>>
vars == <<kg, fs, outfiles, orch, tasks, status_objs, active_tasks, clock, added, libvars>>

(***************************************************************************)
(* Enumerations                                                            *)
(***************************************************************************)
ResearchPerspective == {"o3", "claude-4-sonnet", "claude-4-opus", "cursor-agent"}

InsightType ==
    {"architecture", "safety", "performance", "scalability",
     "prompt_engineering", "testing", "deployment"}

(***************************************************************************)
(* Bounds of the inputs given to add_insight                               *)
(***************************************************************************)
MaxIds == 3

\* Bound of the identifiers given to add_insight in SpecGraph.
MaxGraphIds == 2

\* Bounds of core/base_agent.py: steps of a task, tasks of an executed plan.
MaxSteps == 3
MaxPlanLen == 2
MaxSonnetInsights == 3

\* Bounds of the process: coroutines ever started, seconds the clock advances.
MaxTasks == 2
MaxClock == 1

InsightIds == 1..MaxIds
PerspectivePool == {"o3", "claude-4-sonnet", "claude-4-opus"}
TypePool == {"architecture", "safety", "performance"}
ContentPool == {"a", "b"}
NoRelated == {{}}

(***************************************************************************)
(* Generic helpers over Python dicts kept as insertion-ordered sequences   *)
(***************************************************************************)
Range(s) == {s[k] : k \in 1..Len(s)}

\* The distinct values of f over s, in order of first appearance: the key
\* order of a dict filled by one pass over s.
KeysInOrder(s, f(_)) ==
    LET first == SelectSeq([k \in 1..Len(s) |-> k],
                           LAMBDA k : \A j \in 1..(k - 1) : f(s[j]) # f(s[k]))
    IN  [k \in 1..Len(first) |-> f(s[first[k]])]

MapSeq(s, f(_)) == [k \in 1..Len(s) |-> f(s[k])]

TypeOf(i) == i.type
PerspectiveOf(i) == i.perspective

(***************************************************************************)
(* KnowledgeGraph                                                          *)
(***************************************************************************)
\* ResearchInsight: the fields the program reads.
ResearchInsight(id, source_file, perspective, type, content, related) ==
    [id |-> id, source_file |-> source_file, perspective |-> perspective,
     type |-> type, content |-> content, related_insights |-> related]

\* KnowledgeGraph.__init__
NewKnowledgeGraph ==
    [insights |-> <<>>, nodes |-> {}, edges |-> {},
     consensus_patterns |-> <<>>, divergences |-> <<>>]

IndexOfId(ins, id) == CHOOSE k \in 1..Len(ins) : ins[k].id = id

\* self.insights.setdefault(insight.id, insight): an existing key keeps its
\* value.
DictSetDefault(ins, insight) ==
    IF \E k \in 1..Len(ins) : ins[k].id = insight.id THEN ins ELSE Append(ins, insight)

\* self.insights[insight.id] = insight: a new key is appended, an existing
\* key keeps its position and gets the new value.
DictPut(ins, insight) ==
    IF \E k \in 1..Len(ins) : ins[k].id = insight.id
    THEN [ins EXCEPT ![IndexOfId(ins, insight.id)] = insight]
    ELSE Append(ins, insight)

\* add_insight without the "if related_id in self.graph" test: add_edge
\* creates the nodes it is given.
add_insight_unguarded(g, insight) ==
    [g EXCEPT
        !.insights = DictPut(g.insights, insight),
        !.nodes = g.nodes \cup {insight.id} \cup insight.related_insights,
        !.edges = g.edges \cup {<<insight.id, r>> : r \in insight.related_insights}]

\* KnowledgeGraph.add_insight
add_insight(g, insight) ==
    LET nodes2 == g.nodes \cup {insight.id}
    IN  [g EXCEPT
            !.insights = DictPut(g.insights, insight),
            !.nodes = nodes2,
            !.edges = g.edges \cup
                      {<<insight.id, r>> : r \in insight.related_insights \cap nodes2}]

\* A consensus test that counts the insights of the cluster instead of their
\* distinct perspectives.
ClusterHasTwoInsights(cluster) == Len(cluster) >= 2

\* The consensus test of one type cluster.
ClusterIsConsensus(cluster) ==
    Cardinality({cluster[k].perspective : k \in 1..Len(cluster)}) >= 2

\* KnowledgeGraph.identify_consensus, the list it returns.  "perspectives"
\* is list(set(...)): an unordered collection without duplicates.
identify_consensus(ins) ==
    LET types == KeysInOrder(ins, TypeOf)
        cluster(t) == SelectSeq(ins, LAMBDA i : i.type = t)
        hit == SelectSeq(types, LAMBDA t : ClusterIsConsensus(cluster(t)))
        pattern(t) ==
            [type |-> t,
             insights |-> MapSeq(cluster(t), LAMBDA i : i.content),
             perspectives |-> {cluster(t)[k].perspective : k \in 1..Len(cluster(t))}]
    IN  MapSeq(hit, pattern)

\* identify_divergences comparing each pair of perspectives once, the
\* earlier against the later.
identify_divergences_forward(ins) ==
    LET persp == KeysInOrder(ins, PerspectiveOf)
        n == Len(persp)
        own(p) == SelectSeq(ins, LAMBDA i : i.perspective = p)
        typesOf(p) == {own(p)[k].type : k \in 1..Len(own(p))}
        pairs == [k \in 1..(n * n) |-> <<((k - 1) \div n) + 1, ((k - 1) % n) + 1>>]
        unique_to(jk) == typesOf(persp[jk[1]]) \ typesOf(persp[jk[2]])
        hit == SelectSeq(pairs, LAMBDA jk : jk[1] < jk[2] /\ unique_to(jk) # {})
        pattern(jk) ==
            [perspective |-> persp[jk[1]],
             unique_focus |-> unique_to(jk),
             insights |-> MapSeq(SelectSeq(own(persp[jk[1]]),
                                           LAMBDA i : i.type \in unique_to(jk)),
                                 LAMBDA i : i.content)]
    IN  MapSeq(hit, pattern)

\* KnowledgeGraph.identify_divergences, the list it returns: the nested
\* loop over (perspective, other_perspective) in dict order, one pattern
\* per pair with a non-empty difference.
identify_divergences(ins) ==
    LET persp == KeysInOrder(ins, PerspectiveOf)
        n == Len(persp)
        own(p) == SelectSeq(ins, LAMBDA i : i.perspective = p)
        typesOf(p) == {own(p)[k].type : k \in 1..Len(own(p))}
        pairs == [k \in 1..(n * n) |-> <<persp[((k - 1) \div n) + 1], persp[((k - 1) % n) + 1]>>]
        unique_to(pq) == typesOf(pq[1]) \ typesOf(pq[2])
        hit == SelectSeq(pairs, LAMBDA pq : pq[1] # pq[2] /\ unique_to(pq) # {})
        pattern(pq) ==
            [perspective |-> pq[1],
             unique_focus |-> unique_to(pq),
             insights |-> MapSeq(SelectSeq(own(pq[1]), LAMBDA i : i.type \in unique_to(pq)),
                                 LAMBDA i : i.content)]
    IN  MapSeq(hit, pattern)

(***************************************************************************)
(* Python values                                                           *)
(***************************************************************************)
None == "None"

EmptyDict == << >>

\* dict.update(other) and {**a, **b}: the keys of both, other's values winning.
DictUpdate(d, other) ==
    [k \in (DOMAIN d) \cup (DOMAIN other) |-> IF k \in DOMAIN other THEN other[k] ELSE d[k]]

\* dict.get(key, default)
DictGet(d, key, default) == IF key \in DOMAIN d THEN d[key] ELSE default

Min(S) == CHOOSE x \in S : \A y \in S : x <= y

(***************************************************************************)
(* ResearchDigestionAgent                                                  *)
(***************************************************************************)
research_dirs == <<"chatgpt-agent-research", "codebase-generation-prompt-research">>

model_dirs == <<"o3", "claude-4-sonnet", "claude-4-opus">>

research_files ==
    <<"01_overview.md", "02_architecture-deep-dive.md", "03_codebase-setup.md",
      "04_prompt-structure.md", "05_enhancements.md">>

\* The paths <<research_dir, model_dir, research_file>> in the order the
\* three nested loops of execute visit them.
ScanOrder ==
    [k \in 1..(Len(research_dirs) * Len(model_dirs) * Len(research_files)) |->
        <<research_dirs[((k - 1) \div (Len(model_dirs) * Len(research_files))) + 1],
          model_dirs[(((k - 1) \div Len(research_files)) % Len(model_dirs)) + 1],
          research_files[((k - 1) % Len(research_files)) + 1]>>]

\* The research files that may exist; every other path does not exist.
PathPool ==
    {<<"chatgpt-agent-research", "o3", "01_overview.md">>,
     <<"chatgpt-agent-research", "claude-4-sonnet", "01_overview.md">>}

\* model_dir.upper().replace("-", "_"): the enum member name looked up.
MemberName(model_dir) ==
    CASE model_dir = "o3" -> "O3"
      [] model_dir = "claude-4-sonnet" -> "CLAUDE_4_SONNET"
      [] model_dir = "claude-4-opus" -> "CLAUDE_4_OPUS"

\* ResearchPerspective[name].value
PerspectiveValue(name) ==
    CASE name = "O3" -> "o3"
      [] name = "CLAUDE_4_SONNET" -> "claude-4-sonnet"
      [] name = "CLAUDE_4_OPUS" -> "claude-4-opus"
      [] name = "CURSOR" -> "cursor-agent"

\* insight_mappings.get(file_name, InsightType.ARCHITECTURE)
insight_mappings(file_name) ==
    CASE file_name = "01_overview.md" -> "architecture"
      [] file_name = "02_architecture-deep-dive.md" -> "architecture"
      [] file_name = "03_codebase-setup.md" -> "deployment"
      [] file_name = "04_prompt-structure.md" -> "prompt_engineering"
      [] file_name = "05_enhancements.md" -> "scalability"
      [] OTHER -> "architecture"

\* _process_research_file: the one insight made from a file.  The id is
\* f"{perspective.value}_{file_name}_{len(insights)}" with insights empty.
process_research_file(path) ==
    LET perspective == PerspectiveValue(MemberName(path[2]))
    IN  ResearchInsight(<<perspective, path[3], 0>>, path, perspective,
                        insight_mappings(path[3]),
                        <<"Synthesized insight from", path[3], perspective>>, {})

RECURSIVE AddAll(_, _)
\* for insight in insights_extracted: self.knowledge_graph.add_insight(insight)
AddAll(g, extracted) ==
    IF extracted = <<>> THEN g
    ELSE AddAll(add_insight(g, Head(extracted)), Tail(extracted))

\* The graph after the "Build knowledge graph" and "Identify patterns" steps.
DigestGraph(g, extracted) ==
    LET g2 == AddAll(g, extracted)
    IN  [g2 EXCEPT !.consensus_patterns = identify_consensus(g2.insights),
                   !.divergences = identify_divergences(g2.insights)]

\* knowledge_graph_data and the dict execute returns, from the graph after
\* DigestGraph.
DigestResult(g, extracted) ==
    [knowledge_graph |->
        [insights |-> MapSeq(g.insights,
                             LAMBDA i : [id |-> i.id, source_file |-> i.source_file,
                                         perspective |-> i.perspective, type |-> i.type,
                                         content |-> i.content]),
         nodes_count |-> Cardinality(g.nodes),
         edges_count |-> Cardinality(g.edges)],
     insights_count |-> Len(extracted),
     files_processed |-> Len(extracted),
     consensus_patterns |-> g.consensus_patterns,
     divergences |-> g.divergences]

(***************************************************************************)
(* SynthesisReportAgent (context["knowledge_graph"] is the dict made by    *)
(* the digestion agent in every flow of the two orchestrators)             *)
(***************************************************************************)
ReportPath == "analysis/00_cursor-agent-synthesis.md"
PlanPath == "implementation/00_cursor-agent-plan.md"

\* A test that also rejects a knowledge graph without insights.
MissingOrEmptyKnowledgeGraph(context) ==
    \/ "knowledge_graph" \notin DOMAIN context
    \/ DictGet(context["knowledge_graph"], "insights", <<>>) = <<>>

\* "knowledge_graph = context.get("knowledge_graph"); if not knowledge_graph":
\* the key is missing or its dict is empty.
MissingKnowledgeGraph(context) ==
    \/ "knowledge_graph" \notin DOMAIN context
    \/ DOMAIN context["knowledge_graph"] = {}

\* _generate_executive_summary, dict branch: the three numbers it prints.
generate_executive_summary(knowledge_graph) ==
    [insights_count |-> Len(DictGet(knowledge_graph, "insights", <<>>)),
     consensus_count |-> Len(DictGet(knowledge_graph, "consensus_patterns", <<>>)),
     divergences_count |-> Len(DictGet(knowledge_graph, "divergences", <<>>))]

\* _generate_viewpoints_matrix, dict branch: per perspective its first 3 contents.
generate_viewpoints_matrix(knowledge_graph) ==
    LET insights_data == DictGet(knowledge_graph, "insights", <<>>)
        of(p) == SelectSeq(insights_data, LAMBDA i : i.perspective = p)
    IN  [p \in ResearchPerspective |->
            MapSeq(SubSeq(of(p), 1, IF Len(of(p)) < 3 THEN Len(of(p)) ELSE 3),
                   LAMBDA i : i.content)]

\* report_sections; "actionable_requirements" is a constant list.
ReportSections(context) ==
    [executive_summary |-> generate_executive_summary(context["knowledge_graph"]),
     model_viewpoints_matrix |-> generate_viewpoints_matrix(context["knowledge_graph"]),
     consensus_patterns |-> DictGet(context, "consensus_patterns", <<>>),
     valuable_divergences |-> DictGet(context, "divergences", <<>>),
     actionable_requirements |-> "requirements"]

sections_generated ==
    <<"executive_summary", "model_viewpoints_matrix", "consensus_patterns",
      "valuable_divergences", "actionable_requirements">>

\* The dict SynthesisReportAgent.execute returns.
ReportResult(context) ==
    DictUpdate([report_path |-> ReportPath, sections_generated |-> sections_generated],
               context)

(***************************************************************************)
(* ImplementationPlanAgent                                                 *)
(***************************************************************************)
\* _define_directory_layout, _define_tech_stack, _define_milestones and
\* _define_risk_mitigation return literals.
Plan ==
    [directory_layout |-> "directory_layout", technology_stack |-> "technology_stack",
     milestones |-> <<"M1", "M2", "M3", "M4", "M5">>, risk_mitigation |-> "risk_mitigation"]

\* The dict ImplementationPlanAgent.execute returns.
PlanResult(context) == DictUpdate([plan_path |-> PlanPath, plan |-> Plan], context)

(***************************************************************************)
(* Coroutines.  A coroutine runs without interruption from one await that  *)
(* suspends (the three asyncio.sleep calls) to the next.  The operators    *)
(* below transform W = [oc, out, t]: the orchestrator the coroutine works  *)
(* on, the output files and the coroutine's own record; io says what the   *)
(* file system calls reached in this stretch do (all succeed, Path.exists  *)
(* raises, or mkdir/write_text raises), now is the clock and fsNow the     *)
(* research files that exist.                                              *)
(***************************************************************************)
IOOutcomes == {"ok", "exists_error", "write_error"}

SigmaBuilderPhase ==
    {"research_digestion", "synthesis_report", "implementation_plan",
     "codebase_setup", "documentation", "quality_assurance"}

\* The keys of ΣBuilderOrchestrator.agents.
AgentPhases == {"research_digestion", "synthesis_report", "implementation_plan"}

\* The phases execute_workflow loops over.
WorkflowPhases == <<"research_digestion", "synthesis_report", "implementation_plan">>

IOErrorExists == "OSError: Path.exists"
IOErrorReport == "OSError: analysis/00_cursor-agent-synthesis.md"
IOErrorPlan == "OSError: implementation/00_cursor-agent-plan.md"
\* str(e) of the KeyError a context["knowledge_graph"] lookup would raise.
KnowledgeGraphKeyError == "'knowledge_graph'"

KnowledgeGraphNotFound == "Knowledge graph not found in context"

\* A ValueError without a message.
EmptyErrorMessage(phase) == ""

\* str(e) of the ValueError raised for a phase string that cannot run.
PhaseErrorMessage(phase) ==
    CASE phase = "invalid_phase" -> "'invalid_phase' is not a valid SigmaBuilderPhase"
      [] phase = "codebase_setup" -> "Unknown phase: codebase_setup"
      [] OTHER -> "Unknown phase"

\* ΣBuilderOrchestrator.__init__: an empty context and three agents, each
\* with a KnowledgeGraph of its own; only the digestion agent's is ever used.
NewOrchestrator == [context |-> EmptyDict, kg |-> NewKnowledgeGraph]

NoResponse == [task_id |-> 0, status |-> "pending", result |-> None, error |-> None]
NoException == [phase |-> None, message |-> None]

\* A coroutine slot not yet used.  trace (the phases whose execute was
\* entered), wrote (the files written), changed (whether an update by this
\* coroutine changed the orchestrator's context) and exc (the exception
\* raised) record what the coroutine did.
NewTask ==
    [kind |-> "none", mode |-> "none", phase |-> None, pc |-> "free",
     pos |-> 0, extracted |-> <<>>, results |-> <<>>,
     workflow_id |-> 0, status_ref |-> 0,
     trace |-> <<>>, wrote |-> {}, changed |-> FALSE, exc |-> NoException,
     response |-> NoResponse]

\* The coroutine ends: TaskResponse(task_id, status, result, error), or the
\* outcome run_workflow_background copies into its WorkflowStatus.
Respond(W, status, result, error) ==
    [W EXCEPT !.t.pc = "done",
              !.t.response = [task_id |-> W.t.response.task_id, status |-> status,
                              result |-> result, error |-> error]]

\* An except clause that reports the failure without the message.
HandleExceptionNoMessage(W) == Respond(W, "failed", None, None)

\* except Exception as e: status "failed", error str(e).
HandleException(W) == Respond(W, "failed", None, W.t.exc.message)

\* The exception leaves agent.execute and reaches the code that called it.
Propagate(W) == Respond(W, "raised", None, W.t.exc.message)

\* An exception raised inside a phase: nothing between the raise and the
\* caller's except clause catches it; a direct call of agent.execute has no
\* except clause around it.
Raise(W, phase, message) ==
    LET W1 == [W EXCEPT !.t.exc = [phase |-> phase, message |-> message]]
    IN  IF W.t.kind = "direct" THEN Propagate(W1) ELSE HandleException(W1)

\* agent.execute(context) is entered.
EnterPhase(W, phase) == [W EXCEPT !.t.trace = Append(@, phase)]

\* self.context = phase_result in place of the update.
CommitReplacing(W, phase, result) ==
    [W EXCEPT !.oc.context = result,
              !.t.results = IF phase \in Range(@) THEN @ ELSE Append(@, phase),
              !.t.changed = @ \/ result # W.oc.context]

\* self.context.update(phase_result); results[phase.value] = phase_result
Commit(W, phase, result) ==
    [W EXCEPT !.oc.context = DictUpdate(@, result),
              !.t.results = IF phase \in Range(@) THEN @ ELSE Append(@, phase),
              !.t.changed = @ \/ DictUpdate(W.oc.context, result) # W.oc.context]

\* The dict execute_workflow returns.
WorkflowReturn(W) ==
    Respond(W, "completed",
            [status |-> "completed", phases_executed |-> W.t.results,
             final_context |-> W.oc.context],
            None)

\* A workflow that returns without recording its last phase.
PlanReturnUnrecorded(W) ==
    IF W.t.mode = "single" THEN Respond(W, "completed", PlanResult(W.oc.context), None)
    ELSE WorkflowReturn(W)

\* ImplementationPlanAgent.execute after its sleep, and what follows it.
PlanReturn(W) ==
    LET result == PlanResult(W.oc.context)
    IN  IF W.t.mode = "single" THEN Respond(W, "completed", result, None)
        ELSE WorkflowReturn(Commit(W, "implementation_plan", result))

\* ImplementationPlanAgent.execute up to the sleep in _write_plan.
StartPlan(W, io, now) ==
    LET W1 == EnterPhase(W, "implementation_plan")
    IN  IF io = "write_error" THEN Raise(W1, "implementation_plan", IOErrorPlan)
        ELSE [W1 EXCEPT !.out = DictUpdate(@, PlanPath :> [plan |-> Plan, generated_on |-> now]),
                        !.t.wrote = @ \cup {PlanPath},
                        !.t.pc = "plan"]

\* SynthesisReportAgent.execute after its sleep, and what follows it.
ReportReturn(W, io, now) ==
    LET result == ReportResult(W.oc.context)
    IN  IF W.t.mode = "single" THEN Respond(W, "completed", result, None)
        ELSE StartPlan(Commit(W, "synthesis_report", result), io, now)

\* SynthesisReportAgent.execute up to the sleep in _write_report.
StartReport(W, io, now) ==
    LET W1 == EnterPhase(W, "synthesis_report")
    IN  IF MissingKnowledgeGraph(W1.oc.context)
        THEN Raise(W1, "synthesis_report", KnowledgeGraphNotFound)
        ELSE IF io = "write_error" THEN Raise(W1, "synthesis_report", IOErrorReport)
        ELSE [W1 EXCEPT !.out = DictUpdate(@, ReportPath :>
                                    [sections |-> ReportSections(W1.oc.context),
                                     generated_on |-> now]),
                        !.t.wrote = @ \cup {ReportPath},
                        !.t.pc = "report"]

\* A digestion whose result is stored in the orchestrator's context by the
\* single-phase request as well.
DigestReturnCommitting(W, io, now) ==
    LET g == DigestGraph(W.oc.kg, W.t.extracted)
        W1 == [W EXCEPT !.oc.kg = g]
        result == DigestResult(g, W.t.extracted)
    IN  IF W.t.mode = "single"
        THEN Respond(Commit(W1, "research_digestion", result), "completed", result, None)
        ELSE StartReport(Commit(W1, "research_digestion", result), io, now)

\* ResearchDigestionAgent.execute from the end of its loops, and what follows.
DigestReturn(W, io, now) ==
    LET g == DigestGraph(W.oc.kg, W.t.extracted)
        W1 == [W EXCEPT !.oc.kg = g]
        result == DigestResult(g, W.t.extracted)
    IN  IF W.t.mode = "single" THEN Respond(W1, "completed", result, None)
        ELSE StartReport(Commit(W1, "research_digestion", result), io, now)

\* The loops of ResearchDigestionAgent.execute from path number `from` on:
\* up to the sleep of _process_research_file for the next existing file.
ContinueScan(W, from, fsNow, io, now) ==
    LET next == {k \in from..Len(ScanOrder) : ScanOrder[k] \in fsNow}
    IN  IF io = "exists_error" /\ from <= Len(ScanOrder)
        THEN Raise(W, "research_digestion", IOErrorExists)
        ELSE IF next # {} THEN [W EXCEPT !.t.pc = "digest", !.t.pos = Min(next)]
        ELSE DigestReturn(W, io, now)

\* ResearchDigestionAgent.execute from its first line.
StartDigest(W, fsNow, io, now) ==
    ContinueScan([EnterPhase(W, "research_digestion") EXCEPT !.t.extracted = <<>>],
                 1, fsNow, io, now)

\* _process_research_file after its sleep, and the loops after it.
DigestStep(W, fsNow, io, now) ==
    ContinueScan([W EXCEPT !.t.extracted =
                              Append(@, process_research_file(ScanOrder[W.t.pos]))],
                 W.t.pos + 1, fsNow, io, now)

\* ΣBuilderOrchestrator.execute_workflow from its first line.
execute_workflow(W, fsNow, io, now) ==
    StartDigest([W EXCEPT !.t.mode = "workflow", !.t.results = <<>>], fsNow, io, now)

\* process_sigma_builder_request from its first line.
process_sigma_builder_request(W, fsNow, io, now) ==
    LET phase == W.t.phase
        W1 == [W EXCEPT !.t.response.task_id = now]
        single == [W1 EXCEPT !.t.mode = "single"]
    IN  IF phase = None THEN execute_workflow(W1, fsNow, io, now)
        ELSE IF phase \notin SigmaBuilderPhase \/ phase \notin AgentPhases
        THEN Raise(W1, None, PhaseErrorMessage(phase))
        ELSE CASE phase = "research_digestion" -> StartDigest(single, fsNow, io, now)
               [] phase = "synthesis_report" -> StartReport(single, io, now)
               [] phase = "implementation_plan" -> StartPlan(single, io, now)

\* A suspended coroutine continues after its sleep.
ResumeTask(W, fsNow, io, now) ==
    CASE W.t.pc = "digest" -> DigestStep(W, fsNow, io, now)
      [] W.t.pc = "report" -> ReportReturn(W, io, now)
      [] W.t.pc = "plan" -> PlanReturn(W)

(***************************************************************************)
(* The process after start-up                                              *)
(***************************************************************************)
TaskIds == 1..MaxTasks

\* The module-level orchestrator of synthesized_agent.py and
\* app.state.orchestrator of main.py.
Orchestrators == {"global", "app"}

\* The holders of an agent's graph and of the context dict its execute is
\* given: the two orchestrators, and the agent object and context of a
\* direct agent.execute(context) call.
Holders == Orchestrators \cup {"direct"}

OrchestratorOf(kind) ==
    CASE kind = "request" -> "global"
      [] kind = "direct" -> "direct"
      [] OTHER -> "app"

NoStatus ==
    [workflow_id |-> 0, status |-> "absent", phases_completed |-> <<>>,
     current_phase |-> None, start_time |-> <<>>, end_time |-> <<>>, error |-> None]

WFInit ==
    /\ fs = {}
    /\ outfiles = EmptyDict
    /\ orch = [o \in Holders |-> NewOrchestrator]
    /\ tasks = [t \in TaskIds |-> NewTask]
    /\ status_objs = [t \in TaskIds |-> NoStatus]
    /\ active_tasks = EmptyDict
    /\ clock = 0

(***************************************************************************)
(* core/base_agent.py: BaseAgent.plan, PlannerAgent, ExecutorAgent.  A     *)
(* task dict is a record; a key that may be absent holds a sequence of     *)
(* length 0 or 1; list indices are the 0-based numbers of the code.        *)
(***************************************************************************)
StepNames == [k \in 1..MaxSteps |-> <<"step", k>>]

TaskTypes == {None, "planning", "execution", "verification", "research"}

\* The task dicts given to PlannerAgent.process.
TaskPool ==
    {[type |-> ty, objective |-> <<ob>>, steps |-> SubSeq(StepNames, 1, n),
      has_dependencies |-> hd, safety_critical |-> sc] :
        ty \in TaskTypes, ob \in {"build", "test"}, n \in 0..MaxSteps,
        hd \in BOOLEAN, sc \in BOOLEAN}

Subtask(type, objective, priority) ==
    [type |-> type, objective |-> objective, priority |-> priority, dependencies |-> <<>>]

\* BaseAgent._analyze_complexity
analyze_complexity(task) ==
    LET complexity == 1 + Len(task.steps)
                        + (IF task.has_dependencies THEN 2 ELSE 0)
                        + (IF task.safety_critical THEN 3 ELSE 0)
    IN  IF complexity < 10 THEN complexity ELSE 10

\* BaseAgent._decompose_task
decompose_task(task) ==
    <<Subtask("planning", <<"Create detailed plan for">> \o task.objective, <<1>>)>>
    \o [k \in 1..Len(task.steps) |-> Subtask("execution", task.steps[k], <<(k - 1) + 2>>)]
    \o <<Subtask("verification", <<"Verify completion of">> \o task.objective,
                 <<(1 + Len(task.steps)) + 1>>)>>

\* The indices i of previous_tasks whose type is one of the given ones.
IndicesOfTypes(previous_tasks, types) ==
    SelectSeq([k \in 1..Len(previous_tasks) |-> k - 1],
              LAMBDA i : previous_tasks[i + 1].type \in types)

\* _identify_dependencies whose verification loop runs one index too far,
\* over the subtask itself.
identify_dependencies_inclusive(subtask, previous_tasks) ==
    CASE subtask.type = "planning" -> <<>>
      [] subtask.type = "execution" -> IndicesOfTypes(previous_tasks, {"planning"})
      [] subtask.type = "verification" ->
            IndicesOfTypes(Append(previous_tasks, subtask),
                           {"planning", "execution", "verification"})
      [] OTHER -> <<>>

\* BaseAgent._identify_dependencies
identify_dependencies(subtask, previous_tasks) ==
    CASE subtask.type = "planning" -> <<>>
      [] subtask.type = "execution" -> IndicesOfTypes(previous_tasks, {"planning"})
      [] subtask.type = "verification" ->
            IndicesOfTypes(previous_tasks, {"planning", "execution"})
      [] OTHER -> <<>>

\* BaseAgent.plan
plan(task) ==
    LET subtasks == IF analyze_complexity(task) > 5
                    THEN decompose_task(task)
                    ELSE <<Subtask(task.type, task.objective, <<>>)>>
    IN  [i \in 1..Len(subtasks) |->
            [subtasks[i] EXCEPT !.dependencies =
                identify_dependencies(subtasks[i], SubSeq(subtasks, 1, i - 1))]]

\* PlannerAgent._validate_plan
validate_plan(p) ==
    /\ p # <<>>
    /\ \A i \in 1..Len(p) : (i - 1) \notin Range(p[i].dependencies)

\* No PlannerAgent.process call yet.
NotPlanned == [task |-> <<>>, success |-> FALSE, plan |-> <<>>, error |-> None]

\* PlannerAgent.process: the TaskResult it returns, with the task it got.
PlannerProcess ==
    /\ \E task \in TaskPool :
        planned' = IF validate_plan(plan(task))
                   THEN [task |-> <<task>>, success |-> TRUE, plan |-> plan(task),
                         error |-> None]
                   ELSE [task |-> <<task>>, success |-> FALSE, plan |-> <<>>,
                         error |-> "Invalid plan generated"]
    /\ UNCHANGED <<kg, added, wfvars, executor, sonnet_kg, unified>>

\* The dependencies lists of the plans given to ExecutorAgent.process:
\* lists of task indices of the plan, the task's own and later ones
\* included.
DepLists == UNION {[1..n -> 0..(MaxPlanLen - 1)] : n \in 0..MaxPlanLen}

\* The plans given to ExecutorAgent.process.
PlanPool ==
    UNION {[1..n -> {[Subtask("execution", <<"run">>, <<>>) EXCEPT !.dependencies = ds] :
                        ds \in DepLists}] : n \in 0..MaxPlanLen}

\* No ExecutorAgent.process call yet.  i is the position in the plan of the
\* task at hand and d the position in its dependencies list (both counted
\* from 1); results holds, per executed task, its index in the plan.
IdleExecutor ==
    [pc |-> "idle", plan |-> <<>>, i |-> 0, d |-> 0, results |-> <<>>,
     success |-> FALSE, error |-> None]

\* The return of process after the loop over the plan.
ExecutorReturn(e) == [e EXCEPT !.pc = "done", !.success = TRUE]

\* _wait_for_dependencies of task i from dependency position `from` on, up
\* to its next sleep; when the loop ends _execute_task starts its sleep.
WaitForDependencies(e, from) ==
    LET deps == e.plan[e.i].dependencies
        pending == {k \in from..Len(deps) : ~(deps[k] < Len(e.results))}
    IN  IF pending # {} THEN [e EXCEPT !.pc = "wait", !.d = Min(pending)]
        ELSE [e EXCEPT !.pc = "run", !.d = Len(deps) + 1]

\* The loop of process from task i on.
ExecutorLoop(e, i) ==
    IF i > Len(e.plan) THEN ExecutorReturn(e)
    ELSE WaitForDependencies([e EXCEPT !.i = i], 1)

\* ExecutorAgent.process from its first line to its first sleep.
ExecutorProcess ==
    /\ executor.pc \in {"idle", "done"}
    /\ \E p \in PlanPool :
        executor' = ExecutorLoop([IdleExecutor EXCEPT !.plan = p], 1)
    /\ UNCHANGED <<kg, added, wfvars, planned, sonnet_kg, unified>>

\* The coroutine continues after a sleep: of _wait_for_dependencies (the
\* loop goes on with the next dependency) or of _execute_task (the result
\* is appended and the next task begins).
ExecutorResume ==
    /\ executor.pc \in {"wait", "run"}
    /\ executor' =
        IF executor.pc = "wait" THEN WaitForDependencies(executor, executor.d + 1)
        ELSE ExecutorLoop([executor EXCEPT !.results = Append(@, executor.i - 1)],
                          executor.i + 1)
    /\ UNCHANGED <<kg, added, wfvars, planned, sonnet_kg, unified>>

NextPlanner == PlannerProcess

NextExecutor ==
    \/ ExecutorProcess
    \/ ExecutorResume

(***************************************************************************)
(* experiments/2025-07-19/baseline/sonnet: agents/multi_model_agent.py,    *)
(* KnowledgeGraph.  insights and convergent_patterns are Python lists.     *)
(***************************************************************************)
SonnetModels == {"o3", "claude-4-sonnet", "claude-4-opus"}
SonnetCategories == {"architecture", "safety"}
SonnetTexts == {"a"}

SonnetInsight(model, category, insight) ==
    [model |-> model, category |-> category, insight |-> insight]

NewSonnetGraph == [insights |-> <<>>, convergent_patterns |-> <<>>]

\* by_category[category] of _update_patterns.
ByCategory(insights, category) ==
    SelectSeq(insights, LAMBDA i : i.category = category)

\* The dict _update_patterns builds for a category.
Convergent(insights, category) ==
    LET group == ByCategory(insights, category)
    IN  [category |-> category,
         models |-> [k \in 1..Len(group) |-> group[k].model],
         insights |-> [k \in 1..Len(group) |-> group[k].insight]]

\* KnowledgeGraph._update_patterns: per category with more than one model,
\* the dict is appended unless an equal dict is in the list already.
update_patterns(g) ==
    LET categories == KeysInOrder(g.insights, LAMBDA i : i.category)
        several == SelectSeq(categories, LAMBDA c :
                        Cardinality({i.model : i \in Range(ByCategory(g.insights, c))}) > 1)
        built == [k \in 1..Len(several) |-> Convergent(g.insights, several[k])]
    IN  [g EXCEPT !.convergent_patterns =
            @ \o SelectSeq(built, LAMBDA c : c \notin Range(g.convergent_patterns))]

\* KnowledgeGraph.add_insight
sonnet_add_insight(g, insight) ==
    update_patterns([g EXCEPT !.insights = Append(@, insight)])

SonnetAddInsight ==
    /\ Len(sonnet_kg.insights) < MaxSonnetInsights
    /\ \E m \in SonnetModels, c \in SonnetCategories, x \in SonnetTexts :
        sonnet_kg' = sonnet_add_insight(sonnet_kg, SonnetInsight(m, c, x))
    /\ UNCHANGED <<kg, added, wfvars, planned, executor, unified>>

NextSonnet == SonnetAddInsight

(***************************************************************************)
(* experiments/2025-07-19/rerun/cross/o3-prompt-opus-model:                *)
(* unified_sigma_agent.py, _analyze_patterns on a new agent.  An insight   *)
(* dict is kept as its "type"; list(set) is kept as the set.               *)
(***************************************************************************)
UnifiedModelDirs == <<"o3", "claude-4-sonnet", "claude-4-opus">>
UnifiedTypes == <<"overview", "architecture", "setup">>

\* The insights_by_model arguments: per model directory, in the order of
\* model_dirs, the list of its insights.
InsightsByModelPool ==
    {[k \in 1..Len(UnifiedModelDirs) |->
        [model |-> UnifiedModelDirs[k],
         insights |-> SelectSeq(UnifiedTypes, LAMBDA ty : ty \in f[k])]] :
        f \in [1..Len(UnifiedModelDirs) -> SUBSET Range(UnifiedTypes)]}

\* The (model, type) pairs in the order the two nested loops visit them.
RECURSIVE UnifiedVisits(_)
UnifiedVisits(insights_by_model) ==
    IF insights_by_model = <<>> THEN <<>>
    ELSE LET head == insights_by_model[1]
         IN  [k \in 1..Len(head.insights) |->
                [model |-> head.model, type |-> head.insights[k]]]
             \o UnifiedVisits(Tail(insights_by_model))

\* type_groups[itype].keys()
TypeGroupModels(visits, itype) ==
    KeysInOrder(SelectSeq(visits, LAMBDA v : v.type = itype), LAMBDA v : v.model)

\* The consensus patterns _analyze_patterns appends; strength is the
\* quotient kept as <<numerator, denominator>>.
UnifiedConsensus(insights_by_model) ==
    LET visits == UnifiedVisits(insights_by_model)
        type_groups == KeysInOrder(visits, LAMBDA v : v.type)
        shared == SelectSeq(type_groups,
                            LAMBDA ty : Len(TypeGroupModels(visits, ty)) >= 2)
    IN  [k \in 1..Len(shared) |->
            [type |-> shared[k], models |-> TypeGroupModels(visits, shared[k]),
             strength |-> <<Len(TypeGroupModels(visits, shared[k])),
                            Len(UnifiedModelDirs)>>]]

\* unique_types of a model, as line 194 computes it.
unique_types(all_types, model_types) == model_types \ (all_types \ model_types)

\* The divergences _analyze_patterns appends.
UnifiedDivergences(insights_by_model) ==
    LET all_types == {v.type : v \in Range(UnifiedVisits(insights_by_model))}
        focus(m) == unique_types(all_types, Range(m.insights))
        with == SelectSeq(insights_by_model, LAMBDA m : focus(m) # {})
    IN  [k \in 1..Len(with) |->
            [model |-> with[k].model, unique_focus |-> focus(with[k])]]

\* No agent yet.
NotAnalyzed ==
    [called |-> FALSE, insights_by_model |-> <<>>, consensus_patterns |-> <<>>,
     divergences |-> <<>>]

\* agent = UnifiedΣAgent(); agent._analyze_patterns(insights_by_model)
AnalyzePatterns ==
    /\ \E ibm \in InsightsByModelPool :
        unified' = [called |-> TRUE, insights_by_model |-> ibm,
                    consensus_patterns |-> UnifiedConsensus(ibm),
                    divergences |-> UnifiedDivergences(ibm)]
    /\ UNCHANGED <<kg, added, wfvars, planned, executor, sonnet_kg>>

NextUnified == AnalyzePatterns


(***************************************************************************)
(* Spec: a KnowledgeGraph under its three methods                          *)
(***************************************************************************)
\* The objects of the other modules before any call.
LibInit ==
    /\ planned = NotPlanned
    /\ executor = IdleExecutor
    /\ sonnet_kg = NewSonnetGraph
    /\ unified = NotAnalyzed

Init == kg = NewKnowledgeGraph /\ added = <<>> /\ WFInit /\ LibInit

SpecPlanner == Init /\ [][NextPlanner]_vars

SpecExecutor == Init /\ [][NextExecutor]_vars

SpecSonnet == Init /\ [][NextSonnet]_vars

SpecUnified == Init /\ [][NextUnified]_vars

\* One call of add_insight with its argument drawn from the given pools.
AddInsightFrom(ids, P, T, C, R) ==
    \E id \in ids, p \in P, t \in T, c \in C, r \in R :
        /\ kg' = add_insight(kg, ResearchInsight(id, "test.md", p, t, c, r))
        /\ added' = <<ResearchInsight(id, "test.md", p, t, c, r)>>
        /\ UNCHANGED <<wfvars, libvars>>

\* The identifier not yet in the store that the next new insight gets
\* (identifiers are unique within a run).
FreshIds == {Len(kg.insights) + 1} \cap InsightIds

AddInsight == AddInsightFrom(FreshIds, PerspectivePool, TypePool, ContentPool, NoRelated)

\* identify_consensus appending to the patterns found by earlier calls.
IdentifyConsensusExtending ==
    /\ Len(kg.consensus_patterns) <= MaxIds
    /\ kg' = [kg EXCEPT !.consensus_patterns = @ \o identify_consensus(kg.insights)]
    /\ UNCHANGED <<added, wfvars, libvars>>

IdentifyConsensus ==
    /\ kg' = [kg EXCEPT !.consensus_patterns = identify_consensus(kg.insights)]
    /\ UNCHANGED <<added, wfvars, libvars>>

IdentifyDivergences ==
    /\ kg' = [kg EXCEPT !.divergences = identify_divergences(kg.insights)]
    /\ UNCHANGED <<added, wfvars, libvars>>

Next ==
    \/ AddInsight
    \/ IdentifyConsensus
    \/ IdentifyDivergences

Spec == Init /\ [][Next]_vars

(***************************************************************************)
(* SpecGraph: add_insight with identifiers that repeat and related         *)
(* identifiers that may or may not be in the store                         *)
(***************************************************************************)
GraphIds == 1..MaxGraphIds

\* related_insights: nothing, one identifier, or every identifier.
RelatedPool == {R \in SUBSET GraphIds : Cardinality(R) <= 1 \/ R = GraphIds}

AddInsightGraph == AddInsightFrom(GraphIds, {"o3"}, {"architecture"}, {"a"}, RelatedPool)

NextGraph == AddInsightGraph

SpecGraph == Init /\ [][NextGraph]_vars

(***************************************************************************)
(* SpecWF: requests and background workflows on the two orchestrators      *)
(***************************************************************************)
\* The phase strings requests carry: None asks for the full workflow.
PhaseInputs ==
    {None, "research_digestion", "synthesis_report", "implementation_plan",
     "codebase_setup", "invalid_phase"}

\* Coroutine slots are taken in order.
NextFree(t) == tasks[t].pc = "free" /\ \A u \in TaskIds : u < t => tasks[u].pc # "free"

World(t, task) == [oc |-> orch[OrchestratorOf(task.kind)], out |-> outfiles, t |-> task]

\* run_workflow_background without its except clause: a workflow that
\* raised leaves the WorkflowStatus as it was.
BackgroundOutcomeNoExcept(status, task, now) ==
    IF task.response.status = "completed"
    THEN [status EXCEPT !.status = "completed",
                        !.phases_completed = task.response.result.phases_executed,
                        !.current_phase = None,
                        !.end_time = <<now>>]
    ELSE status

\* run_workflow_background after execute_workflow: the WorkflowStatus it
\* fetched is set to completed (with the phases executed) or failed.
BackgroundOutcome(status, task, now) ==
    IF task.response.status = "completed"
    THEN [status EXCEPT !.status = "completed",
                        !.phases_completed = task.response.result.phases_executed,
                        !.current_phase = None,
                        !.end_time = <<now>>]
    ELSE [status EXCEPT !.status = "failed",
                        !.error = task.response.error,
                        !.end_time = <<now>>]

\* The state after coroutine t ran one stretch that ended in W.
Apply(t, W) ==
    /\ orch' = [orch EXCEPT ![OrchestratorOf(W.t.kind)] = W.oc]
    /\ outfiles' = W.out
    /\ tasks' = [tasks EXCEPT ![t] = W.t]
    /\ status_objs' =
        IF W.t.kind = "background" /\ W.t.pc = "done"
        THEN [status_objs EXCEPT ![W.t.status_ref] = BackgroundOutcome(@, W.t, clock)]
        ELSE status_objs

\* POST /phase/execute (or a direct call): process_sigma_builder_request
\* runs up to its first suspension.
RequestBegin(t) ==
    /\ NextFree(t)
    /\ \E phase \in PhaseInputs, io \in IOOutcomes :
        Apply(t, process_sigma_builder_request(
                    World(t, [NewTask EXCEPT !.kind = "request", !.phase = phase]),
                    fs, io, clock))
    /\ UNCHANGED <<kg, added, libvars, fs, active_tasks, clock>>

\* POST /workflow/start: the handler records a running WorkflowStatus and
\* schedules run_workflow_background.
StartWorkflow(t) ==
    /\ NextFree(t)
    /\ status_objs' = [status_objs EXCEPT ![t] =
            [workflow_id |-> clock, status |-> "running", phases_completed |-> <<>>,
             current_phase |-> "research_digestion", start_time |-> <<clock>>,
             end_time |-> <<>>, error |-> None]]
    /\ active_tasks' = DictUpdate(active_tasks, clock :> t)
    /\ tasks' = [tasks EXCEPT ![t] =
            [NewTask EXCEPT !.kind = "background", !.pc = "scheduled", !.workflow_id = clock]]
    /\ UNCHANGED <<kg, added, libvars, fs, outfiles, orch, clock>>

\* run_workflow_background starts: it fetches its WorkflowStatus and runs
\* execute_workflow up to its first suspension.
BackgroundBegin(t) ==
    /\ tasks[t].pc = "scheduled"
    /\ \E io \in IOOutcomes :
        Apply(t, execute_workflow(
                    World(t, [tasks[t] EXCEPT !.status_ref = active_tasks[tasks[t].workflow_id]]),
                    fs, io, clock))
    /\ UNCHANGED <<kg, added, libvars, fs, active_tasks, clock>>

\* The coroutines a step of the event loop can continue.
Runnable(t) == tasks[t].pc \in {"digest", "report", "plan"}

\* A suspended coroutine is resumed by the event loop.
Resume(t) ==
    /\ Runnable(t)
    /\ \E io \in IOOutcomes : Apply(t, ResumeTask(World(t, tasks[t]), fs, io, clock))
    /\ UNCHANGED <<kg, added, libvars, fs, active_tasks, clock>>

\* A research file of the pool appears or disappears.
FsChangeIn(pool) ==
    /\ \E p \in pool : fs' = IF p \in fs THEN fs \ {p} ELSE fs \cup {p}
    /\ UNCHANGED <<kg, added, libvars, outfiles, orch, tasks, status_objs, active_tasks, clock>>

\* A second passes.
Tick ==
    /\ clock < MaxClock
    /\ clock' = clock + 1
    /\ UNCHANGED <<kg, added, libvars, fs, outfiles, orch, tasks, status_objs, active_tasks>>

FsChange == FsChangeIn(PathPool)

\* Requests served by process_sigma_builder_request within one second.
NextWF ==
    \/ \E t \in TaskIds : RequestBegin(t)
    \/ \E t \in TaskIds : Resume(t)
    \/ FsChange

SpecWF == Init /\ [][NextWF]_vars

\* Background workflows started through /workflow/start.
NextApp ==
    \/ \E t \in TaskIds : StartWorkflow(t)
    \/ \E t \in TaskIds : BackgroundBegin(t)
    \/ \E t \in TaskIds : Resume(t)
    \/ FsChange
    \/ Tick

SpecApp == Init /\ [][NextApp]_vars

\* The event loop runs every background task that was added and resumes
\* every suspended coroutine: weak fairness of BackgroundBegin(t) and of
\* Resume(t), each written out as "infinitely often not enabled or
\* infinitely often taken" with the guard of the action for its enabledness
\* (every step of either action changes tasks[t]).
SpecAppFair ==
    /\ SpecApp
    /\ \A t \in TaskIds :
        /\ []<>(tasks[t].pc # "scheduled") \/ []<><<BackgroundBegin(t)>>_vars
        /\ []<>(~Runnable(t)) \/ []<><<Resume(t)>>_vars

(***************************************************************************)
(* SpecDigest: digestion requests over research files of both directories  *)
(***************************************************************************)
\* The research files that may exist in SpecDigest: the same file name under
\* the same model directory of both research directories, and one more file.
DigestPool ==
    {<<"chatgpt-agent-research", "o3", "01_overview.md">>,
     <<"codebase-generation-prompt-research", "o3", "01_overview.md">>,
     <<"chatgpt-agent-research", "claude-4-opus", "03_codebase-setup.md">>}

\* A request for the research_digestion phase alone runs up to its first
\* suspension.
DigestBegin(t) ==
    /\ NextFree(t)
    /\ \E io \in IOOutcomes :
        Apply(t, process_sigma_builder_request(
                    World(t, [NewTask EXCEPT !.kind = "request",
                                             !.phase = "research_digestion"]),
                    fs, io, clock))
    /\ UNCHANGED <<kg, added, libvars, fs, active_tasks, clock>>

FsChangeDigest == FsChangeIn(DigestPool)

NextDigest ==
    \/ \E t \in TaskIds : DigestBegin(t)
    \/ \E t \in TaskIds : Resume(t)
    \/ FsChangeDigest

SpecDigest == Init /\ [][NextDigest]_vars

(***************************************************************************)
(* SpecAgent: agent.execute(context) called directly on a new agent, as    *)
(* the tests and the /research/digest, /synthesis/report and               *)
(* /implementation/plan handlers do, one call at a time                    *)
(***************************************************************************)
\* A plan other than the one ImplementationPlanAgent builds.
OtherPlan == [Plan EXCEPT !.milestones = <<>>]

OneInsight == <<process_research_file(<<"chatgpt-agent-research", "o3", "01_overview.md">>)>>

\* The contexts a caller passes: {}, the result of a digestion that found
\* nothing, the result of a digestion of one file, and a dict that already
\* has plan and plan_path keys.
ContextPool ==
    {EmptyDict,
     DigestResult(DigestGraph(NewKnowledgeGraph, <<>>), <<>>),
     DigestResult(DigestGraph(NewKnowledgeGraph, OneInsight), OneInsight),
     [plan |-> OtherPlan, plan_path |-> "docs/plan.md"]}

DirectCall(t) ==
    /\ NextFree(t)
    /\ \A u \in TaskIds : tasks[u].pc \in {"free", "done"}
    /\ \E phase \in AgentPhases, context \in ContextPool, io \in IOOutcomes :
        LET W == [oc |-> [context |-> context, kg |-> NewKnowledgeGraph],
                  out |-> outfiles,
                  t |-> [NewTask EXCEPT !.kind = "direct", !.mode = "single",
                                        !.phase = phase]]
        IN  Apply(t, CASE phase = "research_digestion" -> StartDigest(W, fs, io, clock)
                       [] phase = "synthesis_report" -> StartReport(W, io, clock)
                       [] phase = "implementation_plan" -> StartPlan(W, io, clock))
    /\ UNCHANGED <<kg, added, libvars, fs, active_tasks, clock>>

NextAgent ==
    \/ \E t \in TaskIds : DirectCall(t)
    \/ \E t \in TaskIds : Resume(t)
    \/ FsChange

SpecAgent == Init /\ [][NextAgent]_vars

(***************************************************************************)
(* Properties of the pattern detectors (specification Spec)                *)
(***************************************************************************)
StoredPerspectives == {kg.insights[k].perspective : k \in 1..Len(kg.insights)}

PerspectivesOfType(C) ==
    {kg.insights[k].perspective : k \in {j \in 1..Len(kg.insights) : kg.insights[j].type = C}}

TypesOfPerspective(S) ==
    {kg.insights[k].type : k \in {j \in 1..Len(kg.insights) : kg.insights[j].perspective = S}}

\* The categories of S that no other perspective in the store touches.
UniqueTypes(S) ==
    {C \in TypesOfPerspective(S) :
        \A T \in StoredPerspectives \ {S} : C \notin TypesOfPerspective(T)}

ConsensusNow == identify_consensus(kg.insights)
DivergencesNow == identify_divergences(kg.insights)

\* C1: identify_consensus returns exactly one pattern for category C when the
\* stored insights of category C come from at least 2 distinct perspectives,
\* and no pattern for any other category.
C1_ConsensusIffTwoPerspectives ==
    \A C \in InsightType :
        Cardinality({k \in 1..Len(ConsensusNow) : ConsensusNow[k].type = C})
            = IF Cardinality(PerspectivesOfType(C)) >= 2 THEN 1 ELSE 0

\* identify_consensus has run on the current store and returned one pattern,
\* and the store also holds a category touched by a single perspective.
C1_Witness ==
    /\ kg.consensus_patterns = ConsensusNow
    /\ Len(kg.consensus_patterns) = 1
    /\ \E C \in InsightType : Cardinality(PerspectivesOfType(C)) = 1

\* C2: identify_divergences returns a pattern for perspective S if and only
\* if S has at least one category that no other perspective's insights touch,
\* for any number of perspectives in the store.
C2_DivergenceIffUniqueCategory ==
    \A S \in ResearchPerspective :
        (\E k \in 1..Len(DivergencesNow) : DivergencesNow[k].perspective = S)
            <=> UniqueTypes(S) # {}

\* C3: identify_divergences emits at most one pattern per perspective.
C3_OnePatternPerPerspective ==
    \A j, k \in 1..Len(DivergencesNow) :
        DivergencesNow[j].perspective = DivergencesNow[k].perspective => j = k

\* C4: the unique_focus of every divergence pattern for perspective S is the
\* set of S's categories absent from every other perspective, and its
\* insights list holds the contents of S's insights in those categories.
C4_UniqueFocusIsGloballyUnique ==
    \A k \in 1..Len(DivergencesNow) :
        LET S == DivergencesNow[k].perspective
            own == SelectSeq(kg.insights,
                             LAMBDA i : i.perspective = S /\ i.type \in UniqueTypes(S))
        IN  /\ DivergencesNow[k].unique_focus = UniqueTypes(S)
            /\ DivergencesNow[k].insights = MapSeq(own, LAMBDA i : i.content)

\* C5: no category is reported both in a consensus pattern and in the
\* unique_focus of a divergence pattern computed from the same store.
C5_DivergenceNeverConsensus ==
    \A j \in 1..Len(ConsensusNow), k \in 1..Len(DivergencesNow) :
        ConsensusNow[j].type \notin DivergencesNow[k].unique_focus

(***************************************************************************)
(* Properties of workflow runs (specification SpecWF)                      *)
(***************************************************************************)
WorkflowTasks == {t \in TaskIds : tasks[t].mode = "workflow"}

PhaseIndex(phase) == CHOOSE k \in 1..Len(WorkflowPhases) : WorkflowPhases[k] = phase

\* The file a phase writes.
PhaseFiles(phase) ==
    CASE phase = "synthesis_report" -> {ReportPath}
      [] phase = "implementation_plan" -> {PlanPath}
      [] OTHER -> {}

IsPrefix(s, r) == Len(s) <= Len(r) /\ \A k \in 1..Len(s) : s[k] = r[k]

Failed(t) == tasks[t].pc = "done" /\ tasks[t].response.status = "failed"
Completed(t) == tasks[t].pc = "done" /\ tasks[t].response.status = "completed"

\* C6: a workflow run that fails in some phase commits no partial result: no
\* update made by the failed run changed the orchestrator's context, so the
\* context after the run is the context before it.
C6_FailedRunCommitsNothing ==
    \A t \in WorkflowTasks : Failed(t) => ~tasks[t].changed

\* C7: if a phase raises during a workflow run, no later phase is executed
\* and no later report or plan file is written by the run, the request's
\* result is failed with the exception's message as its error, and the
\* failure stays with that request: another run fails only if a phase of its
\* own raises.
C7_FailureAbortsRun ==
    \A t \in WorkflowTasks :
        tasks[t].exc.phase # None =>
            /\ Failed(t)
            /\ tasks[t].response.error = tasks[t].exc.message
            /\ \A k \in 1..Len(WorkflowPhases) :
                k > PhaseIndex(tasks[t].exc.phase) =>
                    /\ WorkflowPhases[k] \notin Range(tasks[t].trace)
                    /\ WorkflowPhases[k] \notin Range(tasks[t].results)
                    /\ PhaseFiles(WorkflowPhases[k]) \cap tasks[t].wrote = {}
            /\ \A u \in WorkflowTasks \ {t} :
                Failed(u) => tasks[u].exc.phase # None

\* A workflow failed in its plan phase after writing its report, and a
\* workflow begun after it has completed.
C7_Witness ==
    \E t, u \in WorkflowTasks :
        /\ t < u
        /\ Failed(t)
        /\ tasks[t].exc.phase = "implementation_plan"
        /\ tasks[t].wrote = {ReportPath}
        /\ Completed(u)

\* C8: a workflow run enters research_digestion, synthesis_report and
\* implementation_plan in that order, each once, without branching, retry or
\* rollback; a run in which no phase raises ends with status completed and
\* phases_executed listing exactly the three phases in that order.
C8_PhasesInOrder ==
    \A t \in WorkflowTasks :
        /\ IsPrefix(tasks[t].trace, WorkflowPhases)
        /\ IsPrefix(tasks[t].results, tasks[t].trace)
        /\ tasks[t].pc = "digest" => Len(tasks[t].trace) = 1
        /\ tasks[t].pc = "report" => Len(tasks[t].trace) = 2
        /\ tasks[t].pc = "plan" => Len(tasks[t].trace) = 3
        /\ (tasks[t].pc = "done" /\ tasks[t].exc.phase = None) =>
            /\ tasks[t].trace = WorkflowPhases
            /\ tasks[t].response.status = "completed"
            /\ tasks[t].response.result.status = "completed"
            /\ tasks[t].response.result.phases_executed = WorkflowPhases
        /\ Completed(t) => tasks[t].exc.phase = None

\* A workflow that digested both research files has completed.
C8_Witness ==
    \E t \in WorkflowTasks :
        /\ Completed(t)
        /\ Len(tasks[t].extracted) = 2
        /\ tasks[t].wrote = {ReportPath, PlanPath}

\* C9: the knowledge graph a workflow run uses is empty when the run starts,
\* also for the second and later runs on the same orchestrator, and when the
\* run completes it holds only insights ingested by that run.
C9_GraphFreshPerRun ==
    [][\A t \in TaskIds :
        LET o == OrchestratorOf(tasks'[t].kind)
        IN  /\ (tasks[t].pc = "free" /\ tasks'[t].mode = "workflow")
                => orch[o].kg.insights = <<>>
            /\ (tasks[t].pc # "done" /\ tasks'[t].pc = "done"
                    /\ tasks'[t].mode = "workflow"
                    /\ tasks'[t].response.status = "completed")
                => Range(orch'[o].kg.insights) \subseteq Range(tasks'[t].extracted)]_vars

\* The final context of a workflow run on a new orchestrator that ingests
\* the given insights.
FreshFinalContext(extracted) ==
    LET g == DigestGraph(NewKnowledgeGraph, extracted)
        c1 == DictUpdate(EmptyDict, DigestResult(g, extracted))
        c2 == DictUpdate(c1, ReportResult(c1))
    IN  DictUpdate(c2, PlanResult(c2))

\* C10: workflow runs share no state: the result and final context of a
\* completed run are those of a run on a new orchestrator ingesting the same
\* files, whatever ran before it or runs beside it.
C10_RunsShareNoState ==
    \A t \in WorkflowTasks :
        Completed(t) =>
            /\ tasks[t].response.result.phases_executed = WorkflowPhases
            /\ tasks[t].response.result.final_context = FreshFinalContext(tasks[t].extracted)

(***************************************************************************)
(* Properties of digestion runs (specification SpecDigest)                 *)
(***************************************************************************)
DigestionTasks == {t \in TaskIds : tasks[t].phase = "research_digestion"}

\* C11: every insight extracted during one digestion run has an identifier
\* different from that of every other insight extracted in the same run,
\* whatever research directories, model directories and files exist.
C11_IdsUniqueWithinRun ==
    \A t \in DigestionTasks :
        \A j, k \in 1..Len(tasks[t].extracted) :
            tasks[t].extracted[j].id = tasks[t].extracted[k].id => j = k

(***************************************************************************)
(* Properties of the phases (specification SpecWF)                         *)
(***************************************************************************)
\* C12: the executive summary written by the report phase of a workflow run
\* states the number of insights, of consensus patterns and of divergence
\* patterns that the digestion phase of the same run detected.
C12_SummaryStatesDigestionCounts ==
    [][\A t \in TaskIds :
        (tasks[t].pc # "report" /\ tasks'[t].pc = "report" /\ tasks'[t].mode = "workflow") =>
            LET digested == orch'[OrchestratorOf(tasks'[t].kind)].context
            IN  outfiles'[ReportPath].sections.executive_summary =
                    [insights_count |-> digested.insights_count,
                     consensus_count |-> Len(digested.consensus_patterns),
                     divergences_count |-> Len(digested.divergences)]]_vars

\* C13: the plan and plan_path returned by the implementation-plan phase are
\* the same constant values for every input context, whatever keys and
\* values that context contains.
C13_PlanIsConstant ==
    \A t \in TaskIds :
        (tasks[t].phase = "implementation_plan" /\ Completed(t)) =>
            /\ tasks[t].response.result.plan = Plan
            /\ tasks[t].response.result.plan_path = PlanPath

HoldsNoKnowledgeGraph(context) ==
    \A k \in DOMAIN context : k = "knowledge_graph" => DOMAIN context[k] = {}

\* C15: executing the synthesis report phase with a context that holds no
\* knowledge graph raises "Knowledge graph not found in context" before any
\* report file is written; the error reaches the caller and the phase is not
\* entered again.
C15_MissingGraphRaises ==
    [][\A t \in TaskIds :
        /\ (tasks[t].pc = "free" /\ tasks'[t].phase = "synthesis_report"
                /\ HoldsNoKnowledgeGraph(orch'[OrchestratorOf(tasks'[t].kind)].context)) =>
            /\ tasks'[t].pc = "done"
            /\ tasks'[t].response.status = "raised"
            /\ tasks'[t].response.error = "Knowledge graph not found in context"
            /\ tasks'[t].trace = <<"synthesis_report">>
            /\ tasks'[t].wrote = {}
            /\ outfiles' = outfiles
        /\ tasks[t].pc = "done" => tasks'[t] = tasks[t]]_vars

\* A direct call of the report phase with a context without a knowledge
\* graph has raised, after an earlier call had written a report.
C15_Witness ==
    \E t \in TaskIds :
        /\ tasks[t].kind = "direct"
        /\ tasks[t].phase = "synthesis_report"
        /\ tasks[t].pc = "done"
        /\ tasks[t].exc.message = "Knowledge graph not found in context"
        /\ HoldsNoKnowledgeGraph(orch["direct"].context)
        /\ ReportPath \in DOMAIN outfiles

\* The keys of the dict each phase returns when called with an empty context.
DigestionKeys == DOMAIN DigestResult(NewKnowledgeGraph, <<>>)
ReportKeys == DOMAIN ReportResult(EmptyDict)
PlanKeys == DOMAIN PlanResult(EmptyDict)

ResultKeys(phase) ==
    CASE phase = "research_digestion" -> DigestionKeys
      [] phase = "synthesis_report" -> ReportKeys
      [] phase = "implementation_plan" -> PlanKeys

\* C16: during a workflow run each phase is called with a context that
\* contains every key returned by the earlier phases of the run, after each
\* phase the orchestrator context contains that phase's result keys, and no
\* key is ever removed from the context.
C16_ContextAccumulates ==
    [][/\ \A o \in Orchestrators : DOMAIN orch[o].context \subseteq DOMAIN orch'[o].context
       /\ \A t \in TaskIds :
            tasks'[t].mode = "workflow" =>
                LET keys == DOMAIN orch'[OrchestratorOf(tasks'[t].kind)].context
                IN  /\ \A k \in 1..Len(tasks'[t].trace) : \A j \in 1..(k - 1) :
                            ResultKeys(WorkflowPhases[j]) \subseteq keys
                    /\ \A k \in 1..Len(tasks'[t].results) :
                            ResultKeys(tasks'[t].results[k]) \subseteq keys]_vars

\* A workflow has completed and its orchestrator's context holds the keys of
\* all three phases while a second workflow is in its report phase.
C16_Witness ==
    \E t, u \in WorkflowTasks :
        /\ Completed(t)
        /\ tasks[u].pc = "report"
        /\ \A k \in 1..Len(WorkflowPhases) :
                ResultKeys(WorkflowPhases[k]) \subseteq DOMAIN orch["global"].context

(***************************************************************************)
(* Properties of add_insight (specification SpecGraph)                     *)
(***************************************************************************)
StoreKeys(g) == {g.insights[k].id : k \in 1..Len(g.insights)}

Stored(g, id) == g.insights[IndexOfId(g.insights, id)]

\* C17: after any sequence of add_insight calls both endpoints of every edge
\* are identifiers present in the insight mapping, and an identifier listed
\* in related_insights that is not yet in the store creates neither an edge
\* nor a node.
C17_EdgesStayInStore ==
    [][/\ \A e \in kg'.edges : e[1] \in StoreKeys(kg') /\ e[2] \in StoreKeys(kg')
       /\ added' # <<>> =>
            \A r \in added'[1].related_insights \ (StoreKeys(kg) \cup {added'[1].id}) :
                /\ r \notin kg'.nodes
                /\ <<added'[1].id, r>> \notin kg'.edges]_vars

\* The graph has an edge, and the latest call listed a related identifier
\* that is not in the store.
C17_Witness ==
    /\ kg.edges # {}
    /\ added # <<>>
    /\ added[1].related_insights \ StoreKeys(kg) # {}

\* C18: after any sequence of add_insight calls the store's key set equals
\* the graph's node set, each key maps to the most recently added insight
\* with that identifier, and no key is ever removed.
C18_StoreMatchesGraph ==
    [][/\ StoreKeys(kg') = kg'.nodes
       /\ StoreKeys(kg) \subseteq StoreKeys(kg')
       /\ added' # <<>> =>
            /\ added'[1].id \in StoreKeys(kg')
            /\ Stored(kg', added'[1].id) = added'[1]
            /\ \A id \in StoreKeys(kg) \ {added'[1].id} : Stored(kg', id) = Stored(kg, id)]_vars

\* An identifier was added again: the graph keeps an edge of the insight
\* that the stored one replaced.
C18_Witness ==
    \E e \in kg.edges : e[2] \notin Stored(kg, e[1]).related_insights

EmptyDigestion == DigestResult(DigestGraph(NewKnowledgeGraph, <<>>), <<>>)

\* C20 (specification SpecAgent): with zero insights in the store the
\* detectors return empty lists and the digestion completes, and the report
\* phase run on the result of that digestion raises nothing but a failure to
\* write its file, writes the report and completes.
C20_EmptyStoreStillReports ==
    [][\A t \in TaskIds :
        /\ (tasks'[t].phase = "research_digestion" /\ tasks[t].pc # "done"
                /\ tasks'[t].pc = "done" /\ tasks'[t].exc.phase = None
                /\ tasks'[t].extracted = <<>>) =>
            /\ tasks'[t].response.status = "completed"
            /\ tasks'[t].response.result = EmptyDigestion
            /\ tasks'[t].response.result.consensus_patterns = <<>>
            /\ tasks'[t].response.result.divergences = <<>>
        /\ (tasks'[t].phase = "synthesis_report" /\ tasks[t].pc = "free"
                /\ orch'["direct"].context = EmptyDigestion) =>
            /\ tasks'[t].exc.message \in {None, IOErrorReport}
            /\ tasks'[t].exc.message = None =>
                /\ tasks'[t].pc = "report"
                /\ ReportPath \in DOMAIN outfiles'
                /\ outfiles'[ReportPath].sections.executive_summary.insights_count = 0
        /\ (tasks[t].pc = "report" /\ tasks'[t] # tasks[t]
                /\ orch["direct"].context = EmptyDigestion) =>
            /\ tasks'[t].pc = "done"
            /\ tasks'[t].response.status = "completed"
            /\ tasks'[t].response.result.report_path = ReportPath]_vars

\* A direct call of the report phase on the result of a digestion that found
\* no file has completed.
C20_Witness ==
    \E t, u \in TaskIds :
        /\ tasks[t].phase = "research_digestion"
        /\ Completed(t)
        /\ tasks[t].extracted = <<>>
        /\ tasks[u].phase = "synthesis_report"
        /\ Completed(u)
        /\ orch["direct"].context = EmptyDigestion

(***************************************************************************)
(* Two perspectives without a common category (specification Spec)         *)
(***************************************************************************)
\* C21: when exactly two perspectives contribute insights and they share no
\* category, identify_consensus returns no pattern and identify_divergences
\* returns exactly two patterns, one per perspective, each listing all of
\* that perspective's categories.
C21_TwoDisjointPerspectives ==
    (/\ Cardinality(StoredPerspectives) = 2
     /\ \A S, T \in StoredPerspectives :
            S # T => TypesOfPerspective(S) \cap TypesOfPerspective(T) = {})
    =>  /\ ConsensusNow = <<>>
        /\ Len(DivergencesNow) = 2
        /\ \A S \in StoredPerspectives :
                \E k \in 1..Len(DivergencesNow) :
                    /\ DivergencesNow[k].perspective = S
                    /\ DivergencesNow[k].unique_focus = TypesOfPerspective(S)

\* identify_divergences has run on a store of two perspectives without a
\* common category, one of them with two categories.
C21_Witness ==
    /\ Cardinality(StoredPerspectives) = 2
    /\ \A S, T \in StoredPerspectives :
            S # T => TypesOfPerspective(S) \cap TypesOfPerspective(T) = {}
    /\ \E S \in StoredPerspectives : Cardinality(TypesOfPerspective(S)) = 2
    /\ kg.divergences = DivergencesNow
    /\ Len(kg.divergences) = 2

(***************************************************************************)
(* ExecutorAgent and the dependencies of a task (specification             *)
(* SpecExecutor)                                                           *)
(***************************************************************************)
\* The task of the plan the executor is at.
TaskAtHand == executor.plan[executor.i]

\* C22: ExecutorAgent.process executes a task of the plan only after every
\* task index in its dependencies has a result, also when a dependency is
\* the task itself or a later task.
C22_ExecutesAfterDependencies ==
    executor.pc = "run" =>
        \A k \in 1..Len(TaskAtHand.dependencies) :
            TaskAtHand.dependencies[k] < Len(executor.results)

(***************************************************************************)
(* The plans of BaseAgent.plan (specification SpecPlanner)                 *)
(***************************************************************************)
\* The 0-based indices before position i of the plan whose type is one of
\* the given ones.
EarlierOfTypes(p, i, types) == {j - 1 : j \in {j \in 1..(i - 1) : p[j].type \in types}}

\* C25: in every plan of BaseAgent.plan the dependencies of the subtask at
\* index i are indices smaller than i; an execution subtask depends on the
\* planning subtasks before it, a verification subtask on every planning and
\* execution subtask before it; PlannerAgent.process never rejects the plan.
C25_DependenciesPointBack ==
    planned.task # <<>> =>
        /\ planned.success
        /\ planned.plan = plan(planned.task[1])
        /\ \A i \in 1..Len(planned.plan) :
            LET subtask == planned.plan[i]
                deps == Range(subtask.dependencies)
            IN  /\ \A dep \in deps : dep < i - 1
                /\ subtask.type = "execution" =>
                        deps = EarlierOfTypes(planned.plan, i, {"planning"})
                /\ subtask.type = "verification" =>
                        deps = EarlierOfTypes(planned.plan, i, {"planning", "execution"})

\* A decomposed plan was returned: planning, two execution subtasks that
\* depend on index 0, and a verification subtask that depends on all three.
C25_Witness ==
    /\ planned.success
    /\ Len(planned.plan) = 4
    /\ planned.plan[2].type = "execution" /\ planned.plan[2].dependencies = <<0>>
    /\ planned.plan[3].type = "execution" /\ planned.plan[3].dependencies = <<0>>
    /\ planned.plan[4].type = "verification"
    /\ planned.plan[4].dependencies = <<0, 1, 2>>

(***************************************************************************)
(* The convergent patterns of the baseline-sonnet KnowledgeGraph           *)
(* (specification SpecSonnet)                                              *)
(***************************************************************************)
\* The models with an insight of the category in the graph.
ModelsOfCategory(c) == {i.model : i \in Range(ByCategory(sonnet_kg.insights, c))}

\* The positions in convergent_patterns of the patterns of the category.
PatternsOfCategory(c) ==
    {k \in 1..Len(sonnet_kg.convergent_patterns) :
        sonnet_kg.convergent_patterns[k].category = c}

\* C23: after any sequence of add_insight calls convergent_patterns holds
\* exactly one pattern for each category with insights of more than one
\* model, and none for any other category.
C23_OnePatternPerSharedCategory ==
    \A c \in SonnetCategories :
        Cardinality(PatternsOfCategory(c)) =
            IF Cardinality(ModelsOfCategory(c)) > 1 THEN 1 ELSE 0

(***************************************************************************)
(* The divergences of UnifiedΣAgent._analyze_patterns (specification       *)
(* SpecUnified)                                                            *)
(***************************************************************************)
\* The insight types of the model in the argument of the call.
TypesOfModel(model) ==
    UNION {Range(unified.insights_by_model[k].insights) :
            k \in {k \in 1..Len(unified.insights_by_model) :
                    unified.insights_by_model[k].model = model}}

\* The types some model other than the given one has.
TypesOfOthers(model) ==
    UNION {TypesOfModel(other) : other \in Range(UnifiedModelDirs) \ {model}}

\* C24: the divergence entry of a model lists in unique_focus only types
\* that no other model has, and a model all of whose types another model
\* has too gets no divergence entry.
C24_UniqueFocusIsUnique ==
    unified.called =>
        /\ \A k \in 1..Len(unified.divergences) :
              unified.divergences[k].unique_focus
                  \cap TypesOfOthers(unified.divergences[k].model) = {}
        /\ \A model \in Range(UnifiedModelDirs) :
              TypesOfModel(model) \subseteq TypesOfOthers(model) =>
                  \A k \in 1..Len(unified.divergences) :
                      unified.divergences[k].model # model

(***************************************************************************)
(* Background workflows end (specification SpecAppFair)                    *)
(***************************************************************************)
\* The WorkflowStatus GET /workflow/{workflow_id}/status returns for the
\* workflow of coroutine t (NoStatus stands for its 404).
RecordOf(t) ==
    IF tasks[t].workflow_id \in DOMAIN active_tasks
    THEN status_objs[active_tasks[tasks[t].workflow_id]]
    ELSE NoStatus

BackgroundStarted(t) == tasks[t].kind = "background" /\ tasks[t].pc # "scheduled"

Ended(status) == status.status \in {"completed", "failed"} /\ status.end_time # <<>>

\* C26: every workflow started through /workflow/start is recorded with
\* status running, and once its background task runs the record eventually
\* has status completed or failed and an end_time, whether the workflow
\* succeeds or a phase raises.
C26_WorkflowEnds ==
    /\ [][\A t \in TaskIds :
            tasks[t].pc = "free" /\ tasks'[t].pc = "scheduled" =>
                /\ tasks'[t].workflow_id \in DOMAIN active_tasks'
                /\ status_objs'[active_tasks'[tasks'[t].workflow_id]].status = "running"
                /\ status_objs'[active_tasks'[tasks'[t].workflow_id]].end_time = <<>>]_vars
    /\ \A t \in TaskIds : BackgroundStarted(t) ~> Ended(RecordOf(t))

\* Two background workflows have run to their end: the record of one is
\* completed, the record of the other failed, both with an end_time.
C26_Witness ==
    \E t, u \in TaskIds :
        /\ tasks[t].kind = "background" /\ tasks[t].pc = "done"
        /\ tasks[u].kind = "background" /\ tasks[u].pc = "done"
        /\ Ended(RecordOf(t)) /\ RecordOf(t).status = "completed"
        /\ Ended(RecordOf(u)) /\ RecordOf(u).status = "failed"

(***************************************************************************)
(* Single-phase requests and the context (specification SpecWF)            *)
(***************************************************************************)
SinglePhase(t, phase) == tasks[t].mode = "single" /\ tasks[t].phase = phase

\* A research_digestion request completed, and no full workflow began,
\* before coroutine t.
AfterDigestionOnly(t) ==
    /\ \E u \in 1..(t - 1) : SinglePhase(u, "research_digestion") /\ Completed(u)
    /\ \A u \in 1..(t - 1) : tasks[u].mode # "workflow"

\* C27: a single-phase request leaves the context of the orchestrator as it
\* was; so a synthesis_report request issued after a successful
\* research_digestion request, with no full workflow before it, fails with
\* "Knowledge graph not found in context".
C27_SinglePhaseKeepsContext ==
    [][\A t \in TaskIds :
        /\ (tasks'[t] # tasks[t] /\ tasks'[t].mode = "single") =>
                orch'["global"].context = orch["global"].context
        /\ (tasks[t].pc = "free" /\ tasks'[t].phase = "synthesis_report"
                /\ AfterDigestionOnly(t)) =>
            /\ tasks'[t].pc = "done"
            /\ tasks'[t].response.status = "failed"
            /\ tasks'[t].response.error = KnowledgeGraphNotFound
            /\ tasks'[t].wrote = {}]_vars

\* A research_digestion request that extracted an insight has completed and
\* the synthesis_report request after it has failed for want of a graph.
C27_Witness ==
    \E t \in TaskIds :
        /\ SinglePhase(t, "synthesis_report")
        /\ AfterDigestionOnly(t)
        /\ \E u \in 1..(t - 1) :
            SinglePhase(u, "research_digestion") /\ Completed(u) /\ tasks[u].extracted # <<>>
        /\ Failed(t)
        /\ tasks[t].response.error = KnowledgeGraphNotFound

(***************************************************************************)
(* The cached patterns of a KnowledgeGraph (specification Spec)            *)
(***************************************************************************)
\* C28: at every point after any sequence of add_insight, identify_consensus
\* and identify_divergences calls, the cached consensus_patterns and
\* divergences equal what the two detectors would return on the insights
\* stored at that point.
C28_CachesAreCurrent ==
    /\ kg.consensus_patterns = ConsensusNow
    /\ kg.divergences = DivergencesNow

(***************************************************************************)
(* Workflow identifiers (specification SpecApp)                            *)
(***************************************************************************)
StartedWorkflows == {t \in TaskIds : tasks[t].kind = "background"}

\* C29: two workflows started by separate /workflow/start calls have distinct
\* workflow identifiers and separate status records: the record kept under
\* the identifier of each is the one its own start created.
C29_DistinctWorkflowIds ==
    \A t \in StartedWorkflows :
        /\ \A u \in StartedWorkflows \ {t} : tasks[u].workflow_id # tasks[t].workflow_id
        /\ tasks[t].workflow_id \in DOMAIN active_tasks
        /\ active_tasks[tasks[t].workflow_id] = t

(***************************************************************************)
(* Edges and the related_insights of the stored insight (specification     *)
(* SpecGraph)                                                              *)
(***************************************************************************)
\* C30: after any sequence of add_insight calls, those that store a different
\* related_insights list under an identifier already present included, every
\* edge (a, b) of the graph has b in the related_insights of the insight
\* stored under a.
C30_EdgesMatchRelatedInsights ==
    \A a \in StoreKeys(kg) :
        \A e \in kg.edges : e[1] = a => e[2] \in Stored(kg, a).related_insights

====
